---- MODULE Spec2Model ----
(***************************************************************************)
(* GophKeeper server core: secret store, operation log (sync_operations)   *)
(* and the sync engine, as wired by server.NewServer:                      *)
(*   handlers -> service.Service -> secretsDomainService / syncService     *)
(*            -> repository.PostgresRepository (on the pgx pool)           *)
(*            -> transaction.transactionManager.                          *)
(*                                                                         *)
(* Requests are served in parallel by independent workers; every           *)
(* repository call is one SQL statement executed on the connection pool.   *)
(* The pool ignores the "tx" value that WithTransaction puts in the        *)
(* context, so every statement is committed on its own when it returns.    *)
(***************************************************************************)
EXTENDS Integers, Sequences, FiniteSets, TLC

\* ---------------------------------------------------------------- bounds
MaxTime == 2        \* parallel workers: the clock runs from 1 to MaxTime
MaxOps == 2         \* parallel workers: requests accepted in a run
MaxFaults == 1      \* parallel workers: database calls that fail in a run
MaxSeqTime == 2     \* one worker: the clock runs from 1 to MaxSeqTime
MaxSeqOps == 5      \* one worker: requests accepted in a run
MaxOwnOps == 3      \* owner scoping: requests accepted in a run
MaxClientOps == 3   \* client: requests the server accepts in a run
MaxRuns == 2        \* client: runs of the sync command
MaxLogLen == 3      \* log queries: rows in sync_operations
MaxLogTime == 2     \* log queries: the rows' timestamps are 1..MaxLogTime
MaxAuthOps == 3     \* accounts: requests accepted in a run
MaxRegOps == 3      \* parallel registrations: requests accepted in a run
MaxRand == 3        \* codec: values the random salt and nonce take
MaxCalls == 2       \* local storage: calls a goroutine makes
MaxWriteFaults == 1 \* client: writes of secrets.json that fail in a run
MaxRaceOps == 3     \* client and parallel workers: requests accepted in a run
MaxSets == 3        \* HTTP client: calls of SetToken and SetMasterPassword
MaxRetries == 3     \* retry middleware: maxRetries is 0..MaxRetries

Workers == {"w1", "w2"}
Users == {"u1"}

\* the values gin binds SecretRequest.Data (any) to: a string (its
\* characters), a number (float64), an object (map[string]interface{})
JSONString(chars) == [t |-> "string", s |-> chars]
JSONNumber(n) == [t |-> "number", n |-> n]
JSONObject(fields) == [t |-> "object", o |-> fields]

D1 == JSONString(<<"d", "1">>)
D2 == JSONObject([number |-> JSONString(<<"4", "2">>), cvv |-> JSONNumber(7)])
D3 == JSONString(<<"<", "&", ">">>)
D4 == JSONObject([url |-> JSONString(<<"g", "&">>),
                  extra |-> JSONObject([n |-> JSONNumber(0)])])
Payloads == {D1, D2, D3, D4}

\* models.SecretRequest bodies a client may send (type, name, data, metadata)
Requests ==
    { [type |-> "text", name |-> "a", data |-> D1, metadata |-> "m1"],
      [type |-> "card", name |-> "b", data |-> D2, metadata |-> "m2"] }

\* what a create or update request carries: a body and the X-Master-Password
\* header it is encrypted under
Writes ==
    {[req |-> r, mp |-> (IF r.name = "a" THEN "mp1" ELSE "mp2")] :
        r \in Requests}

\* the master password sync requests carry
SyncPasswords == {"mp1"}

\* models.RegisterRequest / models.LoginRequest bodies
Usernames == {"alice", "bob"}
Passwords == {"pw-alice-1", "pw-alice-2"}

VARIABLES
    cfg,        \* the run: its workers and how far it is followed
    now,        \* the server clock read by time.Now()
    secretsTbl, \* table secrets: set of rows, primary key id
    syncOps,    \* table sync_operations: rows in insertion order
    nops,       \* number of requests accepted so far
    faults,     \* number of database calls that have failed so far
    pc,         \* per worker: position in the handler it is running
    call,       \* per worker: the request it is serving
    secret,     \* per worker: the *models.Secret it has built
    syncOp,     \* per worker: the *models.SyncOperation it has built
    found,      \* per worker: secretResponses of ProcessSyncRequest
    ret,        \* per worker: what the last finished request returned
    lastStmt,   \* worker whose store statement was executed last
    quiet,      \* sync answers (user, SyncTime) not yet followed by a write
    usersTbl,   \* table users: set of rows
    operations, \* what the last GetSyncOperationsAfter returned
    client,     \* the command-line client: its LocalStorage and request
    clientFile, \* the client's secrets.json
    codec,      \* a payload on its way through the codec
    mu,         \* LocalStorage.mu: the writer and the readers holding it
    thr,        \* per goroutine: its call on the LocalStorage
    httpc,      \* the HTTP client: its fields, its router's chain, its request
    retry       \* a request through RetryMiddleware

srvVars == <<cfg, now, secretsTbl, syncOps, nops, faults, pc, call,
             secret, syncOp, found, ret, lastStmt, quiet>>
libVars == <<codec, mu, thr, httpc, retry>>
extVars == <<usersTbl, operations, client, clientFile, libVars>>
vars == <<srvVars, extVars>>

\* ------------------------------------------------------------ data types
NoCall == [kind |-> "none", op |-> 0, user |-> "", id |-> 0, mp |-> "", last |-> 0,
           logLen |-> 0, rerun |-> FALSE, username |-> "", password |-> ""]
NoSecret == [id |-> 0]
NoSyncOp == [id |-> 0]
NoRet == [status |-> "none", err |-> "", updated |-> <<>>,
          deleted |-> <<>>, syncTime |-> 0, code |-> 0, error |-> ""]

\* time.Time.MarshalJSON / UnmarshalJSON: RFC 3339 with nanoseconds, the
\* instant is kept
MarshalTime(t) == <<"RFC3339Nano", t>>
UnmarshalTime(j) == j[2]

\* nothing is in the codec
NoCodec == [pc |-> "idle"]

\* client.NewClient: no token, no master password, a router without
\* middleware; no request made
NoHTTPClient ==
    [token |-> "", masterPassword |-> "", middleware |-> <<>>, sets |-> 0,
     requested |-> FALSE, sent |-> <<>>]

\* no request has gone through RetryMiddleware
NoRetry == [pc |-> "idle"]

\* goroutines that share the LocalStorage
Threads == {"t1", "t2"}

\* an unlocked sync.RWMutex; a goroutine that has made no call
NoLock == [writer |-> "", readers |-> {}]
NoThr == [pc |-> "idle", op |-> "", arg |-> <<>>, err |-> FALSE,
          before |-> <<>>, got |-> <<>>, n |-> 0]

\* the client process is not running; secrets.json does not exist.
\* got and synced remember the SyncTime of the last sync that succeeded,
\* applied, resp, oks and prevSync the response the run applied, seen every
\* secret a response has returned
NoClient ==
    [pc |-> "off", lastSync |-> 0, secrets |-> {},
     syncReq |-> [last_sync_time |-> MarshalTime(0)], op |-> 0, runs |-> 0,
     synced |-> FALSE, got |-> 0,
     applied |-> FALSE, resp |-> NoRet, oks |-> <<>>, prevSync |-> 0,
     seen |-> {}]
NoFile == [exists |-> FALSE, secrets |-> {}, last_sync |-> MarshalTime(0)]

\* strings.Contains(err.Error(), sub) for the error texts of the services
Contains(msg, sub) ==
    <<msg, sub>> \in
        {<<"secret not found", "not found">>,
         <<"failed to update secret: secret not found or access denied",
           "not found">>,
         <<"failed to delete secret: secret not found or access denied",
           "not found">>,
         <<"user already exists", "already exists">>,
         <<"failed to decrypt secret", "failed to decrypt">>,
         <<"failed to decrypt secret data", "failed to decrypt">>}

\* responseHandler.HandleError: status code and "error" of the JSON body
\* (no service error is a *ValidationError)
HandleError(msg) ==
    IF Contains(msg, "not found")
    THEN [code |-> 404, error |-> "Resource not found"]
    ELSE IF Contains(msg, "already exists")
    THEN [code |-> 409, error |-> "Resource already exists"]
    ELSE IF Contains(msg, "invalid password")
    THEN [code |-> 401, error |-> "Invalid credentials"]
    ELSE IF Contains(msg, "failed to decrypt")
    THEN [code |-> 401, error |-> "Invalid master password"]
    ELSE [code |-> 500, error |-> "Internal server error"]

\* handleRequest: an error goes through HandleError, a result through
\* HandleSuccess
ErrRet(msg) ==
    [NoRet EXCEPT !.status = "err", !.err = msg,
                  !.code = HandleError(msg).code,
                  !.error = HandleError(msg).error]
OkRet == [NoRet EXCEPT !.status = "ok", !.code = 200]

\* ---------------------------------------------------------------- crypto
\* json.Marshal writes a string with <, > and & escaped
EscapeChar(c) ==
    IF c = "<" THEN "\\u003c"
    ELSE IF c = ">" THEN "\\u003e"
    ELSE IF c = "&" THEN "\\u0026"
    ELSE c

\* an Unmarshal that leaves the escapes in
UnescapeCharNone(c) == c

\* json.Unmarshal reads the escapes back
UnescapeChar(c) ==
    IF c = "\\u003c" THEN "<"
    ELSE IF c = "\\u003e" THEN ">"
    ELSE IF c = "\\u0026" THEN "&"
    ELSE c

\* the keys of the model's objects in byte order, the order json.Marshal
\* writes the keys of a map in
KeyOrder == <<"cvv", "extra", "n", "number", "url">>

\* json.Marshal of a value bound from JSON: the text, as its syntax tree
RECURSIVE Marshal(_)
Marshal(data) ==
    IF data.t = "string"
    THEN <<"string", [i \in 1..Len(data.s) |-> EscapeChar(data.s[i])]>>
    ELSE IF data.t = "number"
    THEN <<"number", data.n>>
    ELSE LET keys == SelectSeq(KeyOrder, LAMBDA k : k \in DOMAIN data.o)
         IN  <<"object",
               [i \in 1..Len(keys) |-> <<keys[i], Marshal(data.o[keys[i]])>>]>>

\* json.Unmarshal into interface{}: string, float64 or map
RECURSIVE Unmarshal(_)
Unmarshal(bytes) ==
    IF bytes[1] = "string"
    THEN JSONString([i \in 1..Len(bytes[2]) |-> UnescapeChar(bytes[2][i])])
    ELSE IF bytes[1] = "number"
    THEN JSONNumber(bytes[2])
    ELSE LET members == bytes[2]
         IN  JSONObject(
                 [k \in {members[i][1] : i \in 1..Len(members)} |->
                     LET last == CHOOSE i \in 1..Len(members) :
                                    /\ members[i][1] = k
                                    /\ \A j \in 1..Len(members) :
                                          members[j][1] = k => j <= i
                     IN  Unmarshal(members[last][2])])

\* argon2.IDKey(password, salt, ...): a function of both
Argon2(password, salt) == <<"argon2id", password, salt>>

\* crypto.HashPassword: base64 of salt || hash, the salt from rand.Read
HashPassword(password, salt) ==
    <<"base64", [salt |-> salt, hash |-> Argon2(password, salt)]>>

\* crypto.VerifyPassword: decode, split, hash again under the stored salt
VerifyPassword(password, hashedPassword) ==
    LET data == hashedPassword[2]
    IN  Argon2(password, data.salt) = data.hash

\* AESEncryptor.GenerateKey
GenerateKey(password, salt) == Argon2(password, salt)

\* gcm.Seal: the ciphertext with its tag
Seal(key, nonce, plain) == [key |-> key, nonce |-> nonce, plain |-> plain]

\* gcm.Open: the tag matches under the same key and nonce only
Open(key, nonce, ciphertext) ==
    /\ ciphertext # <<>>
    /\ ciphertext[1].key = key
    /\ ciphertext[1].nonce = nonce

\* what precedes the ciphertext in a blob
BlobHeader == <<"salt", "nonce">>

ErrInvalidData == "invalid encrypted data"
ErrDecryptionFailed == "decryption failed"

\* no payload, no plaintext
NoPayload == [t |-> "none"]

\* AESEncryptor.Encrypt: salt || nonce || ciphertext, salt and nonce fresh
\* (the randomness r of this call)
Encrypt(plain, password, r) ==
    LET salt == <<"salt", r>>
        nonce == <<"nonce", r>>
    IN  <<salt, nonce, Seal(GenerateKey(password, salt), nonce, plain)>>

\* a decryption that does not check the tag
DecryptUnchecked(blob, password) ==
    [ok |-> TRUE, plain |-> blob[3].plain, err |-> ""]

\* AESEncryptor.Decrypt: split, derive the key from the embedded salt, open
Decrypt(blob, password) ==
    IF Len(blob) < Len(BlobHeader)
    THEN [ok |-> FALSE, plain |-> <<>>, err |-> ErrInvalidData]
    ELSE LET salt == blob[1]
             nonce == blob[2]
             ciphertext == SubSeq(blob, 3, Len(blob))
         IN  IF Open(GenerateKey(password, salt), nonce, ciphertext)
             THEN [ok |-> TRUE, plain |-> ciphertext[1].plain, err |-> ""]
             ELSE [ok |-> FALSE, plain |-> <<>>, err |-> ErrDecryptionFailed]

\* cryptoService.EncryptSecretData
EncryptSecretData(data, masterPassword, r) ==
    Encrypt(Marshal(data), masterPassword, r)

\* cryptoService.DecryptSecretData
DecryptSecretData(encryptedData, masterPassword) ==
    LET d == Decrypt(encryptedData, masterPassword)
    IN  IF d.ok
        THEN [ok |-> TRUE, data |-> Unmarshal(d.plain), err |-> ""]
        ELSE [ok |-> FALSE, data |-> NoPayload, err |-> d.err]

\* crypto.GenerateSyncHash: base64(sha256(data)), collision free
GenerateSyncHash(data) == <<"sha256", data>>

\* ------------------------------------------------------------ repository
\* INSERT INTO secrets ...: the primary key rejects a duplicate id
DuplicateKey(tbl, s) == \E r \in tbl : r.id = s.id

\* the same query without the user_id condition
GetSecretByIDAnyOwner(tbl, secretID, userID) ==
    {r \in tbl : r.id = secretID}

\* SELECT ... FROM secrets WHERE id = $1 AND user_id = $2
GetSecretByID(tbl, secretID, userID) ==
    {r \in tbl : r.id = secretID /\ r.user_id = userID}

\* an UPDATE that leaves sync_hash out of its SET list
UpdatedRowStaleHash(row, s) ==
    [row EXCEPT !.name = s.name, !.metadata = s.metadata, !.data = s.data,
                !.updated_at = s.updated_at]

\* an UPDATE that sets created_at as well
UpdatedRowTouchCreated(row, s) ==
    [row EXCEPT !.name = s.name, !.metadata = s.metadata, !.data = s.data,
                !.sync_hash = s.sync_hash, !.updated_at = s.updated_at,
                !.created_at = s.updated_at]

\* an UPDATE that leaves data out of its SET list
UpdatedRowStaleData(row, s) ==
    [row EXCEPT !.name = s.name, !.metadata = s.metadata,
                !.sync_hash = s.sync_hash, !.updated_at = s.updated_at]

\* UPDATE secrets SET name, metadata, data, sync_hash, updated_at
UpdatedRow(row, s) ==
    [row EXCEPT !.name = s.name, !.metadata = s.metadata, !.data = s.data,
                !.sync_hash = s.sync_hash, !.updated_at = s.updated_at]

\* ... WHERE id = $1 AND user_id = $2
UpdateSecretRows(tbl, s) ==
    LET hit == GetSecretByID(tbl, s.id, s.user_id)
    IN  [rowsAffected |-> Cardinality(hit),
         tbl |-> (tbl \ hit) \cup {UpdatedRow(r, s) : r \in hit}]

\* DELETE FROM secrets WHERE id = $1 AND user_id = $2
DeleteSecretRows(tbl, secretID, userID) ==
    LET hit == GetSecretByID(tbl, secretID, userID)
    IN  [rowsAffected |-> Cardinality(hit), tbl |-> tbl \ hit]

\* the same query with updated_at >= $2
SecretsModifiedAfterInclusive(tbl, userID, after) ==
    {r \in tbl : r.user_id = userID /\ r.updated_at >= after}

\* the same query with the comparison the wrong way round
SecretsModifiedAfterFlipped(tbl, userID, after) ==
    {r \in tbl : r.user_id = userID /\ r.updated_at < after}

\* SELECT ... FROM secrets WHERE user_id = $1 AND updated_at > $2
SecretsModifiedAfter(tbl, userID, after) ==
    {r \in tbl : r.user_id = userID /\ r.updated_at > after}

\* ... ORDER BY updated_at: every order of the rows that is ascending in
\* updated_at (rows with equal updated_at come in any order)
OrderedByUpdatedAt(rows) ==
    LET n == Cardinality(rows)
    IN  {q \in [1..n -> rows] :
            /\ \A i, j \in 1..n : i # j => q[i] # q[j]
            /\ \A i, j \in 1..n : i < j => q[i].updated_at <= q[j].updated_at}

\* the same query with timestamp >= $2
SyncOperationsAfterInclusive(tbl, userID, after) ==
    {i \in 1..Len(tbl) : tbl[i].user_id = userID /\ tbl[i].timestamp >= after}

\* SELECT ... FROM sync_operations WHERE user_id = $1 AND timestamp > $2:
\* the positions of the rows selected
SyncOperationsAfter(tbl, userID, after) ==
    {i \in 1..Len(tbl) : tbl[i].user_id = userID /\ tbl[i].timestamp > after}

\* ... ORDER BY timestamp: every order of the selected rows that is
\* ascending in timestamp; SQL leaves the order of rows with equal
\* timestamp open, and the table has no insertion counter to order them by
OrderedByTimestamp(tbl, hit) ==
    LET n == Cardinality(hit)
    IN  {[k \in 1..n |-> tbl[p[k]]] : p \in
            {q \in [1..n -> hit] :
                /\ \A i, j \in 1..n : i # j => q[i] # q[j]
                /\ \A i, j \in 1..n :
                      i < j => tbl[q[i]].timestamp <= tbl[q[j]].timestamp}}

\* ----------------------------------------------------------- sync engine
SecretResponse(row, data) ==
    [id |-> row.id, type |-> row.type, name |-> row.name, data |-> data,
     metadata |-> row.metadata, created_at |-> row.created_at,
     updated_at |-> row.updated_at, sync_hash |-> row.sync_hash]

\* a loop that returns the decryption error instead of skipping the secret
RECURSIVE BuildResponsesFatal(_, _)
BuildResponsesFatal(rows, masterPassword) ==
    IF rows = <<>> THEN [err |-> FALSE, items |-> <<>>]
    ELSE LET d == DecryptSecretData(Head(rows).data, masterPassword)
             rest == BuildResponsesFatal(Tail(rows), masterPassword)
         IN  IF d.ok
             THEN [rest EXCEPT
                     !.items = <<SecretResponse(Head(rows), d.data)>> \o @]
             ELSE [err |-> TRUE, items |-> <<>>]

\* the loop of syncService.ProcessSyncRequest: a secret that does not
\* decrypt under masterPassword is skipped (continue)
RECURSIVE BuildResponses(_, _)
BuildResponses(rows, masterPassword) ==
    IF rows = <<>> THEN [err |-> FALSE, items |-> <<>>]
    ELSE LET d == DecryptSecretData(Head(rows).data, masterPassword)
             rest == BuildResponses(Tail(rows), masterPassword)
         IN  IF d.ok
             THEN [rest EXCEPT
                     !.items = <<SecretResponse(Head(rows), d.data)>> \o @]
             ELSE rest

IdsOf(items) == {items[i].id : i \in 1..Len(items)}

\* the elements of a list
Range(q) == {q[i] : i \in 1..Len(q)}

\* ------------------------------------------------------------------ Init
StartAt(t) ==
    /\ now = t
    /\ nops = 0
    /\ faults = 0
    /\ pc = [w \in Workers |-> "idle"]
    /\ call = [w \in Workers |-> NoCall]
    /\ secret = [w \in Workers |-> NoSecret]
    /\ syncOp = [w \in Workers |-> NoSyncOp]
    /\ found = [w \in Workers |-> <<>>]
    /\ ret = [w \in Workers |-> NoRet]
    /\ lastStmt = ""
    /\ quiet = {}
    /\ usersTbl = {}
    /\ operations = <<>>
    /\ client = NoClient
    /\ clientFile = NoFile
    /\ codec = NoCodec
    /\ mu = NoLock
    /\ thr = [g \in Threads |-> NoThr]
    /\ httpc = NoHTTPClient
    /\ retry = NoRetry

Start == StartAt(1)

\* a secret an earlier request has created, with its log entry
Secret0 ==
    LET encryptedData == EncryptSecretData(D1, "mp1", 0)
    IN  [id |-> 0, user_id |-> "u1", type |-> "text", name |-> "a",
         metadata |-> "m1", data |-> encryptedData,
         sync_hash |-> GenerateSyncHash(encryptedData),
         created_at |-> 1, updated_at |-> 1]
SyncOp0 ==
    [id |-> 0, user_id |-> "u1", secret_id |-> 0, operation |-> "create",
     timestamp |-> 1]

\* requests are handled in parallel by independent workers; the database
\* holds one secret
Init ==
    /\ Start
    /\ secretsTbl = {Secret0}
    /\ syncOps = <<SyncOp0>>
    /\ cfg = [workers |-> Workers, ops |-> MaxOps, faults |-> MaxFaults,
              time |-> MaxTime]

\* one worker serves the requests one after the other, on an empty
\* database that does not fail
InitSeq ==
    /\ Start
    /\ secretsTbl = {}
    /\ syncOps = <<>>
    /\ cfg = [workers |-> {"w1"}, ops |-> MaxSeqOps, faults |-> 0,
              time |-> MaxSeqTime]

\* a secret of another user, who sends no request here
OtherSecret ==
    LET encryptedData == EncryptSecretData(D2, "mp2", -1)
    IN  [id |-> -1, user_id |-> "u2", type |-> "card", name |-> "b",
         metadata |-> "m2", data |-> encryptedData,
         sync_hash |-> GenerateSyncHash(encryptedData),
         created_at |-> 1, updated_at |-> 1]
OtherSyncOp ==
    [id |-> -1, user_id |-> "u2", secret_id |-> -1, operation |-> "create",
     timestamp |-> 1]

\* one worker serves u1, on a database that does not fail and holds a
\* secret of u1 and a secret of u2
InitOwn ==
    /\ Start
    /\ secretsTbl = {Secret0, OtherSecret}
    /\ syncOps = <<SyncOp0, OtherSyncOp>>
    /\ cfg = [workers |-> {"w1"}, ops |-> MaxOwnOps, faults |-> 0,
              time |-> 2]

\* rows sync_operations may hold: row i was inserted i-th
LogRows ==
    [id : 1..MaxLogLen, user_id : {"u1", "u2"}, secret_id : {0},
     operation : {"create", "update", "delete"}, timestamp : 1..MaxLogTime]

Logs ==
    UNION {{q \in [1..n -> LogRows] : \A i \in 1..n : q[i].id = i} :
              n \in 0..MaxLogLen}

\* the log as earlier writes of two users have left it; one worker
\* answers one query
InitLog ==
    /\ StartAt(MaxLogTime)
    /\ secretsTbl = {}
    /\ syncOps \in Logs
    /\ cfg = [workers |-> {"w1"}, ops |-> 1, faults |-> 0,
              time |-> MaxLogTime]

\* secret ids a client can name: those the server has handed out
KnownIds ==
    {r.id : r \in secretsTbl}
        \cup {syncOps[i].secret_id : i \in 1..Len(syncOps)}

\* a database call works, or fails (connection lost, context cancelled)
Outcomes == IF faults < cfg.faults THEN BOOLEAN ELSE {TRUE}
Charge(ok) == faults' = IF ok THEN faults ELSE faults + 1

\* a worker picks up a request; uuid.New() and rand.Read() give it values
\* no other request has, here the request's number.  The answer to the
\* command-line client has gone out before the worker serves anyone else
Accept(w, c) ==
    /\ w \in cfg.workers
    /\ pc[w] = "idle"
    /\ ~(client.pc = "waiting" /\ call[w].op = client.op)
    /\ nops < cfg.ops
    /\ nops' = nops + 1
    /\ call' = [call EXCEPT ![w] = [c EXCEPT !.op = nops + 1]]
    /\ syncOp' = [syncOp EXCEPT ![w] = NoSyncOp]

\* the request returns: the worker is idle again
Return(w, r) ==
    /\ pc' = [pc EXCEPT ![w] = "idle"]
    /\ ret' = [ret EXCEPT ![w] = r]

\* the request goes on to its next statement
Goto(w, label) ==
    /\ pc' = [pc EXCEPT ![w] = label]
    /\ ret' = [ret EXCEPT ![w] = NoRet]

\* the store statement has returned: the log entry comes next
Logging(w) ==
    /\ pc' = [pc EXCEPT ![w] = "logins"]
    /\ ret' = [ret EXCEPT ![w] = NoRet]
    /\ syncOp' = [syncOp EXCEPT ![w] =
                    [id |-> call[w].op, user_id |-> call[w].user,
                     secret_id |-> call[w].id, operation |-> call[w].kind,
                     timestamp |-> now]]

\* the clock advances
Tick ==
    /\ now < cfg.time
    /\ now' = now + 1
    /\ UNCHANGED extVars
    /\ UNCHANGED <<cfg, secretsTbl, syncOps, nops, faults, pc, call,
                   secret, syncOp, found, ret, lastStmt, quiet>>

\* -------------------------------------------------- secretsDomainService
\* CreateSecret up to tm.db.Begin: encrypt, build the secret, begin
CreateSecret(w) ==
    \E userID \in Users, in \in Writes, beginOk \in Outcomes :
        LET encryptedData == EncryptSecretData(in.req.data, in.mp, nops + 1)
            s == [id |-> nops + 1, user_id |-> userID, type |-> in.req.type,
                  name |-> in.req.name, metadata |-> in.req.metadata,
                  data |-> encryptedData,
                  sync_hash |-> GenerateSyncHash(encryptedData),
                  created_at |-> now, updated_at |-> now]
        IN  /\ Accept(w, [NoCall EXCEPT !.kind = "create", !.user = userID,
                                        !.id = s.id, !.mp = in.mp])
            /\ secret' = [secret EXCEPT ![w] = s]
            /\ found' = [found EXCEPT ![w] = <<>>]
            /\ Charge(beginOk)
            /\ IF beginOk THEN Goto(w, "store")
               ELSE Return(w, ErrRet("failed to begin transaction"))
            /\ UNCHANGED extVars
            /\ UNCHANGED <<cfg, now, secretsTbl, syncOps, lastStmt,
                           quiet>>

\* UpdateSecret up to tm.db.Begin: GetSecretByID, encrypt, overwrite the
\* fields of the row that was read, begin
UpdateSecret(w) ==
    \E secretID \in KnownIds, userID \in Users, in \in Writes,
       beginOk \in Outcomes :
        LET existing == GetSecretByID(secretsTbl, secretID, userID)
            encryptedData == EncryptSecretData(in.req.data, in.mp, nops + 1)
        IN  /\ Accept(w, [NoCall EXCEPT !.kind = "update", !.user = userID,
                                        !.id = secretID, !.mp = in.mp])
            /\ found' = [found EXCEPT ![w] = <<>>]
            /\ IF existing = {}
               THEN /\ Return(w, ErrRet("secret not found"))
                    /\ secret' = [secret EXCEPT ![w] = NoSecret]
                    /\ beginOk
                    /\ UNCHANGED faults
               ELSE /\ secret' = [secret EXCEPT ![w] =
                         [(CHOOSE r \in existing : TRUE) EXCEPT
                            !.name = in.req.name,
                            !.metadata = in.req.metadata,
                            !.data = encryptedData,
                            !.sync_hash = GenerateSyncHash(encryptedData),
                            !.updated_at = now]]
                    /\ Charge(beginOk)
                    /\ IF beginOk THEN Goto(w, "store")
                       ELSE Return(w, ErrRet("failed to begin transaction"))
            /\ UNCHANGED extVars
            /\ UNCHANGED <<cfg, now, secretsTbl, syncOps, lastStmt,
                           quiet>>

\* DeleteSecret up to tm.db.Begin
DeleteSecret(w) ==
    \E secretID \in KnownIds, userID \in Users, beginOk \in Outcomes :
        /\ Accept(w, [NoCall EXCEPT !.kind = "delete", !.user = userID,
                                    !.id = secretID])
        /\ secret' = [secret EXCEPT ![w] = NoSecret]
        /\ found' = [found EXCEPT ![w] = <<>>]
        /\ Charge(beginOk)
        /\ IF beginOk THEN Goto(w, "store")
           ELSE Return(w, ErrRet("failed to begin transaction"))
        /\ UNCHANGED extVars
        /\ UNCHANGED <<cfg, now, secretsTbl, syncOps, lastStmt,
                       quiet>>

\* GetSecret: GetSecretByID, then decrypt under the master password sent
GetSecret(w) ==
    \E secretID \in KnownIds, userID \in Users, mp \in {"mp1", "mp2"},
       dbOk \in Outcomes :
        LET existing == GetSecretByID(secretsTbl, secretID, userID)
            row == CHOOSE r \in existing : TRUE
            d == DecryptSecretData(row.data, mp)
        IN  /\ Accept(w, [NoCall EXCEPT !.kind = "get", !.user = userID,
                                        !.id = secretID, !.mp = mp])
            /\ secret' = [secret EXCEPT ![w] = NoSecret]
            /\ Charge(dbOk)
            /\ IF ~dbOk
               THEN /\ Return(w, ErrRet("failed to get secret"))
                    /\ found' = [found EXCEPT ![w] = <<>>]
               ELSE IF existing = {}
               THEN /\ Return(w, ErrRet("secret not found"))
                    /\ found' = [found EXCEPT ![w] = <<>>]
               ELSE IF ~d.ok
               THEN /\ Return(w, ErrRet("failed to decrypt secret"))
                    /\ found' = [found EXCEPT ![w] = <<>>]
               ELSE /\ Return(w, OkRet)
                    /\ found' = [found EXCEPT ![w] =
                                    <<SecretResponse(row, d.data)>>]
            /\ UNCHANGED extVars
            /\ UNCHANGED <<cfg, now, secretsTbl, syncOps, lastStmt, quiet>>

\* ---------------------------------- statements inside WithTransaction(fn)
\* repo.CreateSecret: INSERT on the pool; an error makes fn, and with it
\* WithTransaction, return it (the deferred Rollback has nothing to undo)
RepoCreateSecret(w) ==
    /\ pc[w] = "store" /\ call[w].kind = "create"
    /\ \E dbOk \in Outcomes :
        /\ Charge(dbOk)
        /\ IF dbOk /\ ~DuplicateKey(secretsTbl, secret[w])
           THEN /\ secretsTbl' = secretsTbl \cup {secret[w]}
                /\ Logging(w)
                /\ lastStmt' = w
                /\ quiet' = {}
           ELSE /\ Return(w, ErrRet("failed to create secret"))
                /\ UNCHANGED <<secretsTbl, syncOp, lastStmt, quiet>>
    /\ UNCHANGED extVars
    /\ UNCHANGED <<cfg, now, syncOps, nops, call, secret,
                   found>>

\* repo.UpdateSecret: UPDATE on the pool; no row affected is an error
RepoUpdateSecret(w) ==
    /\ pc[w] = "store" /\ call[w].kind = "update"
    /\ \E dbOk \in Outcomes :
        LET u == UpdateSecretRows(secretsTbl, secret[w])
        IN  /\ Charge(dbOk)
            /\ IF dbOk /\ u.rowsAffected # 0
               THEN /\ secretsTbl' = u.tbl
                    /\ Logging(w)
                    /\ lastStmt' = w
                    /\ quiet' = {}
               ELSE /\ Return(w, ErrRet(IF dbOk
                         THEN "failed to update secret: secret not found or access denied"
                         ELSE "failed to update secret"))
                    /\ UNCHANGED <<secretsTbl, syncOp, lastStmt, quiet>>
    /\ UNCHANGED extVars
    /\ UNCHANGED <<cfg, now, syncOps, nops, call, secret,
                   found>>

\* repo.DeleteSecret: DELETE on the pool; no row affected is an error
RepoDeleteSecret(w) ==
    /\ pc[w] = "store" /\ call[w].kind = "delete"
    /\ \E dbOk \in Outcomes :
        LET d == DeleteSecretRows(secretsTbl, call[w].id, call[w].user)
        IN  /\ Charge(dbOk)
            /\ IF dbOk /\ d.rowsAffected # 0
               THEN /\ secretsTbl' = d.tbl
                    /\ Logging(w)
                    /\ lastStmt' = w
                    /\ quiet' = {}
               ELSE /\ Return(w, ErrRet(IF dbOk
                         THEN "failed to delete secret: secret not found or access denied"
                         ELSE "failed to delete secret"))
                    /\ UNCHANGED <<secretsTbl, syncOp, lastStmt, quiet>>
    /\ UNCHANGED extVars
    /\ UNCHANGED <<cfg, now, syncOps, nops, call, secret,
                   found>>

\* syncService.CreateSyncOperation, then tx.Commit.  The entry gets
\* uuid.New() and time.Now(), read at some moment between the return of the
\* store statement (clock value syncOp[w].timestamp) and the INSERT.  The
\* INSERT runs on the pool; when it fails fn only prints a warning and
\* returns nil all the same.  The commit is that of a transaction which
\* holds no statement.
CreateSyncOperation(w) ==
    /\ pc[w] = "logins"
    /\ \E timestamp \in syncOp[w].timestamp..now, dbOk \in Outcomes,
          commitOk \in BOOLEAN :
        LET entry == [syncOp[w] EXCEPT !.timestamp = timestamp]
            failed == (IF dbOk THEN 0 ELSE 1) + (IF commitOk THEN 0 ELSE 1)
        IN  /\ faults + failed <= cfg.faults
            /\ faults' = faults + failed
            /\ syncOp' = [syncOp EXCEPT ![w] = entry]
            /\ IF dbOk
               THEN /\ syncOps' = Append(syncOps, entry)
                    /\ quiet' = {}
               ELSE UNCHANGED <<syncOps, quiet>>
            /\ IF commitOk THEN Return(w, OkRet)
               ELSE Return(w, ErrRet("failed to commit transaction"))
    /\ UNCHANGED extVars
    /\ UNCHANGED <<cfg, now, secretsTbl, nops, call, secret, found, lastStmt>>

\* the caller's context is cancelled while the write is in flight; every
\* later call on the pool returns the context's error.  Before the store
\* statement: it fails and fn returns its error.  After it: the INSERT of
\* the log entry fails (a warning), fn returns nil and tx.Commit fails.
Cancel(w) ==
    /\ w \in cfg.workers
    /\ pc[w] \in {"store", "logins"}
    /\ IF pc[w] = "store"
       THEN Return(w, ErrRet("context canceled"))
       ELSE Return(w, ErrRet("failed to commit transaction: context canceled"))
    /\ UNCHANGED extVars
    /\ UNCHANGED <<cfg, now, secretsTbl, syncOps, nops, faults, call, secret,
                   syncOp, found, lastStmt, quiet>>

\* ------------------------------------------------------------ syncService
\* ProcessSyncRequest up to the loop's end: GetSecretsModifiedAfter, then
\* decrypt what it returned
ProcessSyncRequestOf(w, userID, last, mp, dbOk) ==
        /\ Accept(w, [NoCall EXCEPT !.kind = "sync", !.user = userID,
                                    !.mp = mp, !.last = last,
                                    !.logLen = Len(syncOps),
                                    !.rerun = (<<userID, last>> \in quiet)])
        /\ secret' = [secret EXCEPT ![w] = NoSecret]
        /\ Charge(dbOk)
        /\ IF ~dbOk
           THEN /\ Return(w, ErrRet("failed to get modified secrets"))
                /\ found' = [found EXCEPT ![w] = <<>>]
           ELSE \E secrets \in OrderedByUpdatedAt(
                                 SecretsModifiedAfter(secretsTbl, userID, last)) :
                  LET b == BuildResponses(secrets, mp)
                  IN  IF b.err
                      THEN /\ Return(w, ErrRet("failed to decrypt secret data"))
                           /\ found' = [found EXCEPT ![w] = <<>>]
                      ELSE /\ found' = [found EXCEPT ![w] = b.items]
                           /\ Goto(w, "synctime")
        /\ UNCHANGED <<cfg, now, secretsTbl, syncOps, lastStmt, quiet>>

\* a sync request of some client
ProcessSyncRequest(w) ==
    \E userID \in Users, last \in 0..cfg.time, mp \in SyncPasswords,
       dbOk \in Outcomes :
        /\ ProcessSyncRequestOf(w, userID, last, mp, dbOk)
        /\ UNCHANGED extVars

\* the return statement: DeletedSecrets is the empty list, SyncTime is
\* time.Now()
SyncRespond(w) ==
    /\ pc[w] = "synctime"
    /\ Return(w, [OkRet EXCEPT !.updated = found[w], !.deleted = <<>>,
                               !.syncTime = now])
    /\ quiet' = quiet \cup {<<call[w].user, now>>}
    /\ UNCHANGED extVars
    /\ UNCHANGED <<cfg, now, secretsTbl, syncOps, nops, faults, call,
                   secret, syncOp, found, lastStmt>>

Next ==
    \/ Tick
    \/ \E w \in Workers :
        \/ CreateSecret(w)
        \/ UpdateSecret(w)
        \/ DeleteSecret(w)
        \/ RepoCreateSecret(w)
        \/ RepoUpdateSecret(w)
        \/ RepoDeleteSecret(w)
        \/ CreateSyncOperation(w)
        \/ ProcessSyncRequest(w)
        \/ SyncRespond(w)

Spec == Init /\ [][Next]_vars

SpecSeq == InitSeq /\ [][Next]_vars

\* PostgresRepository.GetSyncOperationsAfter(userID, after)
GetSyncOperationsAfter(w) ==
    \E userID \in {"u1", "u2"}, after \in 0..cfg.time :
        /\ Accept(w, [NoCall EXCEPT !.kind = "since", !.user = userID,
                                    !.last = after])
        /\ operations' \in OrderedByTimestamp(syncOps,
                               SyncOperationsAfter(syncOps, userID, after))
        /\ Return(w, OkRet)
        /\ UNCHANGED <<usersTbl, client, clientFile, libVars>>
        /\ UNCHANGED <<cfg, now, secretsTbl, syncOps, faults, secret, found,
                       lastStmt, quiet>>

NextLog == \E w \in Workers : GetSyncOperationsAfter(w)

SpecLog == InitLog /\ [][NextLog]_vars

\* ---------------------------------------------------------- LocalStorage
\* s.secrets[key] = val
Put(secrets, key, val) ==
    {e \in secrets : e.key # key} \cup {[key |-> key, val |-> val]}

\* delete(s.secrets, id) for each id
Remove(secrets, ids) == {e \in secrets : e.key \notin ids}

\* the for loop of SaveSecrets
RECURSIVE PutAll(_, _)
PutAll(secrets, list) ==
    IF list = <<>> THEN secrets
    ELSE PutAll(Put(secrets, Head(list).id, Head(list)), Tail(list))

\* LocalStorage.save: storageData marshalled, written over secrets.json
SavedFile(secrets, lastSync) ==
    [exists |-> TRUE, secrets |-> secrets, last_sync |-> MarshalTime(lastSync)]

\* models.SecretResponse values of the cache, by id and sync hash
CacheItems == {[id |-> i, sync_hash |-> h] : i \in {1, 2}, h \in {"h1", "h2"}}

WriteOps == {"SaveSecret", "SaveSecrets", "DeleteSecret", "DeleteSecrets",
             "SetLastSyncTime"}
ReadOps == {"GetSecrets", "GetSecret", "GetHashes", "GetLastSyncTime"}

\* the calls a goroutine may make, with their arguments
StorageCalls ==
    {<<"SaveSecret", x>> : x \in CacheItems}
        \cup {<<"SaveSecrets", <<x, y>>>> :
                  x \in {c \in CacheItems : c.id = 1},
                  y \in {c \in CacheItems : c.id = 2 /\ c.sync_hash = "h2"}}
        \cup {<<"DeleteSecret", i>> : i \in {1}}
        \cup {<<"DeleteSecrets", <<1, 2>>>>}
        \cup {<<"SetLastSyncTime", 1>>}
        \cup {<<"GetSecrets", 0>>, <<"GetSecret", 1>>, <<"GetHashes", 0>>,
               <<"GetLastSyncTime", 0>>}

\* a Lock that does not wait for the readers
CanLockOverReaders(m) == m.writer = ""

\* sync.RWMutex: Lock waits for the writer and the readers to leave,
\* RLock for the writer
CanLock(m) == m.writer = "" /\ m.readers = {}
CanRLock(m) == m.writer = ""

\* a goroutine calls a method of the LocalStorage
StorageCall(t) ==
    /\ thr[t].pc = "idle"
    /\ thr[t].n < MaxCalls
    /\ \E c \in StorageCalls :
          thr' = [thr EXCEPT ![t] = [NoThr EXCEPT !.pc = "lock", !.op = c[1],
                                                 !.arg = c[2], !.n = thr[t].n + 1]]
    /\ UNCHANGED <<srvVars, usersTbl, operations, client, clientFile, codec, mu, httpc, retry>>

\* s.mu.Lock() / s.mu.RLock() returns
StorageLock(t) ==
    /\ thr[t].pc = "lock"
    /\ IF thr[t].op \in WriteOps
       THEN /\ CanLock(mu)
            /\ mu' = [mu EXCEPT !.writer = t]
            /\ thr' = [thr EXCEPT ![t].pc = "mutate"]
       ELSE /\ CanRLock(mu)
            /\ mu' = [mu EXCEPT !.readers = @ \cup {t}]
            /\ thr' = [thr EXCEPT ![t].pc = "read"]
    /\ UNCHANGED <<srvVars, usersTbl, operations, client, clientFile, codec, httpc, retry>>

\* the body of a mutating method up to s.save()
StorageMutate(t) ==
    /\ thr[t].pc = "mutate"
    /\ LET op == thr[t].op
           arg == thr[t].arg
       IN  client' = [client EXCEPT
               !.secrets =
                   IF op = "SaveSecret" THEN Put(@, arg.id, arg)
                   ELSE IF op = "SaveSecrets" THEN PutAll(@, arg)
                   ELSE IF op = "DeleteSecret" THEN Remove(@, {arg})
                   ELSE IF op = "DeleteSecrets" THEN Remove(@, Range(arg))
                   ELSE @,
               !.lastSync = IF op = "SetLastSyncTime" THEN arg ELSE @]
    /\ thr' = [thr EXCEPT ![t].pc = "save",
                          ![t].before = <<client.secrets, client.lastSync>>]
    /\ UNCHANGED <<srvVars, usersTbl, operations, clientFile, codec, mu, httpc, retry>>

\* s.save(): os.WriteFile succeeds or fails, its error is returned
StorageSave(t) ==
    /\ thr[t].pc = "save"
    /\ \E ok \in BOOLEAN :
          /\ clientFile' = IF ok THEN SavedFile(client.secrets, client.lastSync)
                                 ELSE clientFile
          /\ thr' = [thr EXCEPT ![t].pc = "unlock", ![t].err = ~ok]
    /\ UNCHANGED <<srvVars, usersTbl, operations, client, codec, mu, httpc, retry>>

\* the body of a reading method
StorageRead(t) ==
    /\ thr[t].pc = "read"
    /\ LET op == thr[t].op
       IN  thr' = [thr EXCEPT
               ![t].pc = "unlock",
               ![t].got =
                   IF op = "GetSecrets" THEN {e.val : e \in client.secrets}
                   ELSE IF op = "GetSecret"
                   THEN {e.val : e \in {x \in client.secrets :
                                           x.key = thr[t].arg}}
                   ELSE IF op = "GetHashes"
                   THEN {<<e.key, e.val.sync_hash>> : e \in client.secrets}
                   ELSE {client.lastSync}]
    /\ UNCHANGED <<srvVars, usersTbl, operations, client, clientFile, codec, mu, httpc, retry>>

\* the deferred s.mu.Unlock() / s.mu.RUnlock(); the method returns
StorageUnlock(t) ==
    /\ thr[t].pc = "unlock"
    /\ mu' = IF thr[t].op \in WriteOps
             THEN [mu EXCEPT !.writer = ""]
             ELSE [mu EXCEPT !.readers = @ \ {t}]
    /\ thr' = [thr EXCEPT ![t] = [NoThr EXCEPT !.n = thr[t].n]]
    /\ UNCHANGED <<srvVars, usersTbl, operations, client, clientFile, codec, httpc, retry>>

\* a client process whose LocalStorage was created on an empty directory
InitStore ==
    /\ Start
    /\ secretsTbl = {}
    /\ syncOps = <<>>
    /\ cfg = [workers |-> {}, ops |-> 0, faults |-> 0, time |-> 1]

NextStore ==
    \E t \in Threads :
        \/ StorageCall(t)
        \/ StorageLock(t)
        \/ StorageMutate(t)
        \/ StorageSave(t)
        \/ StorageRead(t)
        \/ StorageUnlock(t)

SpecStore == InitStore /\ [][NextStore]_vars

\* ------------------------------------------------- command-line client
\* a load that does not restore lastSync
LoadLastSyncZero(file) == 0

\* LocalStorage.load: lastSync of secrets.json, the zero time without file
LoadLastSync(file) ==
    IF file.exists THEN UnmarshalTime(file.last_sync) ELSE 0

\* &secret in the loop over response.UpdatedSecrets: one variable for all
\* iterations (the module is built with Go 1.21), so every SaveSecret of
\* the loop stores the same pointer
LoopVar == [ptr |-> "secret"]

\* the map with its pointers followed: the loop variable holds cur
Deref(secrets, cur) ==
    {[key |-> e.key, val |-> IF e.val = LoopVar THEN cur ELSE e.val] :
        e \in secrets}

\* which of n writes of secrets.json succeed
WriteOutcomes(n) ==
    {oks \in [1..n -> BOOLEAN] :
        Cardinality({i \in 1..n : ~oks[i]}) <= MaxWriteFaults}

\* the loop of syncCmd.Run over response.UpdatedSecrets from element i on:
\* SaveSecret(&secret) puts the pointer in the map and rewrites the file,
\* a failure is only warned about.  Gives the map and the file after it
RECURSIVE SaveUpdated(_, _, _, _, _, _)
SaveUpdated(secrets, file, lastSync, updated, oks, i) ==
    IF i > Len(updated) THEN [secrets |-> secrets, file |-> file]
    ELSE LET put == Put(secrets, updated[i].id, LoopVar)
         IN  SaveUpdated(put,
                 IF oks[i]
                 THEN SavedFile(Deref(put, updated[i]), lastSync)
                 ELSE file,
                 lastSync, updated, oks, i + 1)

\* syncCmd.Run from the response on: the loop, DeleteSecrets when there
\* are deleted ids, SetLastSyncTime(SyncTime); oks says which writes of
\* the file succeed, the last two being those of DeleteSecrets and
\* SetLastSyncTime
ApplyResponse(secrets, file, lastSync, updated, deleted, SyncTime, oks) ==
    LET n == Len(updated)
        cur == IF n = 0 THEN LoopVar ELSE updated[n]
        loop == SaveUpdated(secrets, file, lastSync, updated, oks, 1)
        kept == IF deleted = <<>> THEN loop.secrets
                ELSE Remove(loop.secrets, Range(deleted))
        file2 == IF deleted # <<>> /\ oks[n + 1]
                 THEN SavedFile(Deref(kept, cur), lastSync)
                 ELSE loop.file
        file3 == IF oks[n + 2]
                 THEN SavedFile(Deref(kept, cur), SyncTime)
                 ELSE file2
    IN  [secrets |-> Deref(kept, cur), lastSync |-> SyncTime, file |-> file3]

\* a run of the client starts: NewLocalStorage loads secrets.json
ClientStart ==
    /\ client.pc = "off"
    /\ client.runs < MaxRuns
    /\ client' = [client EXCEPT
                    !.pc = "loaded", !.runs = @ + 1,
                    !.applied = FALSE, !.resp = NoRet, !.oks = <<>>,
                    !.lastSync = LoadLastSync(clientFile),
                    !.secrets = IF clientFile.exists
                                THEN clientFile.secrets ELSE {}]
    /\ UNCHANGED <<srvVars, usersTbl, operations, clientFile, libVars>>

\* syncCmd.Run up to the request: LastSyncTime is GetLastSyncTime(); the
\* server binds the JSON body and serves it
ClientSync(w) ==
    /\ client.pc = "loaded"
    /\ LET syncReq == [last_sync_time |-> MarshalTime(client.lastSync)]
       IN  /\ \E dbOk \in Outcomes :
                ProcessSyncRequestOf(w, "u1",
                    UnmarshalTime(syncReq.last_sync_time), "mp1", dbOk)
           /\ client' = [client EXCEPT !.pc = "waiting", !.syncReq = syncReq,
                                       !.op = nops + 1]
    /\ UNCHANGED <<usersTbl, operations, clientFile, libVars>>

\* syncCmd.Run from the response on: an error ends the run; otherwise the
\* secrets are saved and SetLastSyncTime(response.SyncTime) writes the file
ClientReceive(w) ==
    /\ client.pc = "waiting"
    /\ pc[w] = "idle" /\ call[w].op = client.op
    /\ IF ret[w].status = "err"
       THEN /\ client' = [client EXCEPT !.pc = "off"]
            /\ UNCHANGED clientFile
       ELSE \E oks \in WriteOutcomes(Len(ret[w].updated) + 2) :
            LET SyncTime == UnmarshalTime(MarshalTime(ret[w].syncTime))
                n == Len(ret[w].updated)
                end == ApplyResponse(client.secrets, clientFile,
                           client.lastSync, ret[w].updated, ret[w].deleted,
                           SyncTime, oks)
            IN  /\ client' = [client EXCEPT
                                !.pc = "off", !.lastSync = end.lastSync,
                                !.secrets = end.secrets,
                                !.synced = oks[n + 2],
                                !.got = ret[w].syncTime,
                                !.applied = TRUE, !.resp = ret[w],
                                !.oks = oks, !.prevSync = client.lastSync,
                                !.seen = @ \cup Range(ret[w].updated)]
                /\ clientFile' = end.file
    /\ UNCHANGED <<srvVars, usersTbl, operations, libVars>>

\* the server with one worker and a database that may fail once, used by
\* the command-line client of u1 and by other clients
InitClient ==
    /\ Start
    /\ secretsTbl = {Secret0}
    /\ syncOps = <<SyncOp0>>
    /\ cfg = [workers |-> {"w1"}, ops |-> MaxClientOps, faults |-> 1,
              time |-> 2]

NextClient ==
    \/ Next
    \/ ClientStart
    \/ \E w \in Workers : ClientSync(w) \/ ClientReceive(w)

SpecClient == InitClient /\ [][NextClient]_vars

\* the command-line client of u1 and other clients, served by parallel
\* workers on a database that does not fail
InitRace ==
    /\ Start
    /\ secretsTbl = {Secret0}
    /\ syncOps = <<SyncOp0>>
    /\ cfg = [workers |-> Workers, ops |-> MaxRaceOps, faults |-> 0,
              time |-> 2]

SpecRace == InitRace /\ [][NextClient]_vars

\* ---------------------------------------------------- authDomainService
\* PostgresRepository.GetUserByUsername: the rows of that name
GetUserByUsername(tbl, username) == {u \in tbl : u.username = username}

\* RegisterUser up to the insert: look the name up, hash the password
RegisterUser(w) ==
    \E username \in Usernames, password \in Passwords, dbOk \in Outcomes :
        /\ Accept(w, [NoCall EXCEPT !.kind = "register",
                                    !.username = username,
                                    !.password = password])
        /\ Charge(dbOk)
        /\ IF ~dbOk
           THEN Return(w, ErrRet("failed to check existing user"))
           ELSE IF GetUserByUsername(usersTbl, username) # {}
           THEN Return(w, ErrRet("user already exists"))
           ELSE Goto(w, "createuser")
        /\ UNCHANGED extVars
        /\ UNCHANGED <<cfg, now, secretsTbl, syncOps, secret, found, lastStmt,
                       quiet>>

\* the users table is created outside these sources: it either carries a
\* unique index on username or it does not
UsersSchemas == BOOLEAN

\* what RegisterUser returns when the INSERT breaks the unique index: the
\* driver's text wrapped by CreateUser and by RegisterUser
DuplicateUsername ==
    "failed to create user: failed to create user: duplicate key value violates unique constraint (SQLSTATE 23505)"

\* PostgresRepository.CreateUser and the rest of RegisterUser: the salt
\* is fresh, here the request's number
CreateUser(w) ==
    /\ w \in cfg.workers
    /\ pc[w] = "createuser"
    /\ \E dbOk \in Outcomes :
        /\ Charge(dbOk)
        /\ IF ~dbOk
           THEN /\ usersTbl' = usersTbl
                /\ Return(w, ErrRet("failed to create user"))
           ELSE IF /\ cfg.uniqueUsername
                   /\ GetUserByUsername(usersTbl, call[w].username) # {}
           THEN /\ usersTbl' = usersTbl
                /\ Return(w, ErrRet(DuplicateUsername))
           ELSE /\ usersTbl' = usersTbl \cup
                       {[id |-> call[w].op, username |-> call[w].username,
                         password_hash |->
                             HashPassword(call[w].password, call[w].op),
                         created_at |-> now, updated_at |-> now]}
                /\ Return(w, [OkRet EXCEPT !.code = 201])
    /\ UNCHANGED <<operations, client, clientFile, libVars>>
    /\ UNCHANGED <<cfg, now, secretsTbl, syncOps, nops, call, secret, syncOp,
                   found, lastStmt, quiet>>

\* LoginUser, answered by Handlers.Login through HandleError
LoginUser(w) ==
    \E username \in Usernames, password \in Passwords, dbOk \in Outcomes :
        LET user == GetUserByUsername(usersTbl, username)
        IN  /\ Accept(w, [NoCall EXCEPT !.kind = "login",
                                        !.username = username,
                                        !.password = password])
            /\ Charge(dbOk)
            /\ IF ~dbOk
               THEN Return(w, ErrRet("failed to get user"))
               ELSE IF user = {}
               THEN Return(w, ErrRet("invalid credentials"))
               ELSE IF ~VerifyPassword(password,
                           (CHOOSE u \in user : TRUE).password_hash)
               THEN Return(w, ErrRet("invalid credentials"))
               ELSE Return(w, OkRet)
            /\ UNCHANGED extVars
            /\ UNCHANGED <<cfg, now, secretsTbl, syncOps, secret, found,
                           lastStmt, quiet>>

\* one worker serves registrations and logins, on a database without
\* users that may fail once
InitAuth ==
    /\ Start
    /\ secretsTbl = {}
    /\ syncOps = <<>>
    /\ \E unique \in UsersSchemas :
          cfg = [workers |-> {"w1"}, ops |-> MaxAuthOps, faults |-> 1,
                 time |-> 2, uniqueUsername |-> unique]

NextAuth ==
    \/ Tick
    \/ \E w \in Workers : RegisterUser(w) \/ CreateUser(w) \/ LoginUser(w)

SpecAuth == InitAuth /\ [][NextAuth]_vars

\* registrations and logins handled in parallel, on a database that does
\* not fail
InitReg ==
    /\ Start
    /\ secretsTbl = {}
    /\ syncOps = <<>>
    /\ \E unique \in UsersSchemas :
          cfg = [workers |-> Workers, ops |-> MaxRegOps, faults |-> 0,
                 time |-> 2, uniqueUsername |-> unique]

SpecReg == InitReg /\ [][NextAuth]_vars

\* ------------------------------------------------------------ the codec
\* master passwords a payload is encoded and decoded under
CodecPasswords == {"mp1", "mp2", "mp3"}

\* EncryptSecretData of a payload under a password
Encode ==
    /\ codec.pc = "idle"
    /\ \E payload \in Payloads, password \in CodecPasswords, r \in 1..MaxRand :
          codec' = [pc |-> "encoded", payload |-> payload,
                    password |-> password,
                    blob |-> EncryptSecretData(payload, password, r)]
    /\ UNCHANGED <<srvVars, usersTbl, operations, client, clientFile, mu, thr,
                   httpc, retry>>

\* DecryptSecretData of the blob under a password, the same or another
Decode ==
    /\ codec.pc = "encoded"
    /\ \E with \in CodecPasswords :
          codec' = [pc |-> "decoded", payload |-> codec.payload,
                    password |-> codec.password, blob |-> codec.blob,
                    with |-> with,
                    out |-> DecryptSecretData(codec.blob, with)]
    /\ UNCHANGED <<srvVars, usersTbl, operations, client, clientFile, mu, thr,
                   httpc, retry>>

InitCodec ==
    /\ Start
    /\ secretsTbl = {}
    /\ syncOps = <<>>
    /\ cfg = [workers |-> {}, ops |-> 0, faults |-> 0, time |-> 1]

NextCodec == Encode \/ Decode

SpecCodec == InitCodec /\ [][NextCodec]_vars

\* ------------------------------------------------------- the HTTP client
Tokens == {"", "tokA", "tokB"}
MasterPasswords == {"", "mp1", "mp2"}

\* req.Headers[key] = value
SetHeader(headers, key, value) ==
    [k \in DOMAIN headers \cup {key} |->
        IF k = key THEN value ELSE headers[k]]

\* "Bearer " + token
Bearer(token) == <<"Bearer ", token>>

\* AuthMiddleware(token) and MasterPasswordMiddleware(masterPassword) on
\* the headers of a request: nothing when the value is empty
AuthMiddleware(token, headers) ==
    IF token # "" THEN SetHeader(headers, "Authorization", Bearer(token))
    ELSE headers
MasterPasswordMiddleware(masterPassword, headers) ==
    IF masterPassword # ""
    THEN SetHeader(headers, "X-Master-Password", masterPassword)
    ELSE headers

\* Client.setupMiddleware: Use(AuthMiddleware(c.token)) and
\* Use(MasterPasswordMiddleware(c.masterPassword)), each an append
SetupMiddleware(chain, token, masterPassword) ==
    chain \o <<[kind |-> "auth", value |-> token],
               [kind |-> "mp", value |-> masterPassword]>>

\* the handler DoRequest builds: middleware[1] outermost, so the chain
\* acts on the request in the order of the slice, then executeRequest
RECURSIVE RunChain(_, _)
RunChain(chain, headers) ==
    IF chain = <<>> THEN headers
    ELSE RunChain(Tail(chain),
             IF Head(chain).kind = "auth"
             THEN AuthMiddleware(Head(chain).value, headers)
             ELSE MasterPasswordMiddleware(Head(chain).value, headers))

\* Client.SetToken
SetToken ==
    /\ httpc.sets < MaxSets
    /\ \E token \in Tokens :
          httpc' = [httpc EXCEPT
              !.token = token,
              !.middleware = SetupMiddleware(@, token, httpc.masterPassword),
              !.sets = @ + 1, !.requested = FALSE, !.sent = <<>>]
    /\ UNCHANGED <<srvVars, usersTbl, operations, client, clientFile, codec,
                   mu, thr, retry>>

\* Client.SetMasterPassword
SetMasterPassword ==
    /\ httpc.sets < MaxSets
    /\ \E password \in MasterPasswords :
          httpc' = [httpc EXCEPT
              !.masterPassword = password,
              !.middleware = SetupMiddleware(@, httpc.token, password),
              !.sets = @ + 1, !.requested = FALSE, !.sent = <<>>]
    /\ UNCHANGED <<srvVars, usersTbl, operations, client, clientFile, codec,
                   mu, thr, retry>>

\* HTTPRouter.DoRequest: a request without headers goes through the chain;
\* http.DoRequest copies req.Headers to the HTTP request
DoRequest ==
    /\ ~httpc.requested
    /\ httpc' = [httpc EXCEPT !.requested = TRUE,
                              !.sent = RunChain(httpc.middleware, <<>>)]
    /\ UNCHANGED <<srvVars, usersTbl, operations, client, clientFile, codec,
                   mu, thr, retry>>

InitHTTP ==
    /\ Start
    /\ secretsTbl = {}
    /\ syncOps = <<>>
    /\ cfg = [workers |-> {}, ops |-> 0, faults |-> 0, time |-> 1]

NextHTTP == SetToken \/ SetMasterPassword \/ DoRequest

SpecHTTP == InitHTTP /\ [][NextHTTP]_vars

\* ----------------------------------------------------- RetryMiddleware
\* what a call of the wrapped handler returns: nil or an error
Nil == "nil"
Errors == {"e1", "e2"}

\* a loop that returns the error of the first call
RECURSIVE RetryLoopFirstErr(_, _, _, _, _)
RetryLoopFirstErr(maxRetries, outcomes, i, lastErr, calls) ==
    IF i > maxRetries THEN [err |-> lastErr, calls |-> calls]
    ELSE IF outcomes[i + 1] = Nil THEN [err |-> Nil, calls |-> calls + 1]
    ELSE RetryLoopFirstErr(maxRetries, outcomes, i + 1,
             IF lastErr = Nil THEN outcomes[i + 1] ELSE lastErr, calls + 1)

\* the for loop of RetryMiddleware from iteration i on; outcomes[k] is
\* what the k-th call of next(req) returns
RECURSIVE RetryLoop(_, _, _, _, _)
RetryLoop(maxRetries, outcomes, i, lastErr, calls) ==
    IF i > maxRetries THEN [err |-> lastErr, calls |-> calls]
    ELSE IF outcomes[i + 1] = Nil THEN [err |-> Nil, calls |-> calls + 1]
    ELSE RetryLoop(maxRetries, outcomes, i + 1, outcomes[i + 1], calls + 1)

\* a request goes through RetryMiddleware(maxRetries)
RetryMiddleware ==
    /\ retry.pc = "idle"
    /\ \E maxRetries \in 0..MaxRetries :
       \E outcomes \in [1..maxRetries + 1 -> {Nil} \cup Errors] :
          LET end == RetryLoop(maxRetries, outcomes, 0, Nil, 0)
          IN  retry' = [pc |-> "done", maxRetries |-> maxRetries,
                        outcomes |-> outcomes, err |-> end.err,
                        calls |-> end.calls]
    /\ UNCHANGED <<srvVars, usersTbl, operations, client, clientFile, codec,
                   mu, thr, httpc>>

InitRetry ==
    /\ Start
    /\ secretsTbl = {}
    /\ syncOps = <<>>
    /\ cfg = [workers |-> {}, ops |-> 0, faults |-> 0, time |-> 1]

NextRetry == RetryMiddleware

SpecRetry == InitRetry /\ [][NextRetry]_vars

\* the requests on secrets, reads by id included
NextOwn ==
    \/ Next
    \/ \E w \in Workers : GetSecret(w)

SpecOwn == InitOwn /\ [][NextOwn]_vars

\* the parallel workers, with callers that may cancel their requests
NextCtx ==
    \/ Next
    \/ \E w \in Workers : Cancel(w)

SpecCtx == Init /\ [][NextCtx]_vars

\* ============================================================== claims
WriteKinds == {"create", "update", "delete"}

\* worker w has finished a request of the given kinds
Finished(w, kinds) == pc[w] = "idle" /\ call[w].kind \in kinds

\* the store statement of w's write has been executed
StoreDone(w) == call[w].kind \in WriteKinds /\ syncOp[w] # NoSyncOp

\* positions of the log entry of w's write
OwnEntries(w) ==
    {i \in 1..Len(syncOps) :
        /\ syncOps[i].id = call[w].op
        /\ syncOps[i].user_id = call[w].user
        /\ syncOps[i].secret_id = call[w].id
        /\ syncOps[i].operation = call[w].kind}

\* the store shows the mutation of w's write
Applied(w) ==
    CASE call[w].kind = "create" -> secret[w] \in secretsTbl
      [] call[w].kind = "update" ->
            \E r \in secretsTbl : r.id = call[w].id /\ r.data = secret[w].data
      [] call[w].kind = "delete" ->
            GetSecretByID(secretsTbl, call[w].id, call[w].user) = {}
      [] OTHER -> FALSE

\* C1: at every moment a reader finds the store mutation of a write and
\* its log entry both present or both absent.
C1_StoreAndLogTogether ==
    \A w \in Workers :
        call[w].kind \in WriteKinds => (StoreDone(w) <=> OwnEntries(w) # {})

\* C2: a write whose log append failed returns an error and leaves the
\* store as it was before the call.
C2_LogFailureAborts ==
    \A w \in Workers :
        (Finished(w, WriteKinds) /\ StoreDone(w) /\ OwnEntries(w) = {})
            => (ret[w].status = "err" /\ ~Applied(w))

\* C3: a write that succeeds has exactly one log entry with its user,
\* secret id and kind, and for create and update the entry's instant is
\* the updated_at the write stored.
C3_OneEntryPerWrite ==
    \A w \in Workers :
        (Finished(w, WriteKinds) /\ ret[w].status = "ok")
            => /\ Cardinality(OwnEntries(w)) = 1
               /\ call[w].kind \in {"create", "update"}
                    => \A i \in OwnEntries(w) :
                          syncOps[i].timestamp = secret[w].updated_at

\* the log entries of the user a finished sync could see, newer than last
RECURSIVE Since(_, _, _)
Since(ops, userID, last) ==
    IF ops = <<>> THEN <<>>
    ELSE IF Head(ops).user_id = userID /\ Head(ops).timestamp > last
         THEN <<Head(ops)>> \o Since(Tail(ops), userID, last)
         ELSE Since(Tail(ops), userID, last)

Window(w) ==
    Since(SubSeq(syncOps, 1, call[w].logLen), call[w].user, call[w].last)

SyncOk(w) == Finished(w, {"sync"}) /\ ret[w].status = "ok"

\* C4: a secret deleted after last is in deleted, and not in updated, of
\* a sync from last.
C4_DeletedReported ==
    \A w \in Workers :
        SyncOk(w) =>
            \A i \in 1..Len(Window(w)) :
                Window(w)[i].operation = "delete"
                    => /\ Window(w)[i].secret_id \in Range(ret[w].deleted)
                       /\ Window(w)[i].secret_id \notin IdsOf(ret[w].updated)

\* C5: create, update, update, delete of one secret, all after last: the
\* sync from last answers updated = <<>> and deleted = <<id>>.
C5_Collapse ==
    \A w \in Workers :
        (/\ SyncOk(w)
         /\ Len(Window(w)) = 4
         /\ [i \in 1..4 |-> Window(w)[i].operation]
                = <<"create", "update", "update", "delete">>
         /\ \A i \in 1..4 : Window(w)[i].secret_id = Window(w)[1].secret_id)
            => /\ ret[w].updated = <<>>
               /\ ret[w].deleted = <<Window(w)[1].secret_id>>

\* a sync request is answered by the query (w goes on to read the clock)
Queried(w) == pc[w] = "idle" /\ pc'[w] = "synctime"
\* the sync request returns its response
Responded(w) == pc[w] = "synctime" /\ pc'[w] = "idle"

C7_RerunIsEmpty ==
    \A w \in Workers :
        (SyncOk(w) /\ call[w].rerun)
            => (ret[w].updated = <<>> /\ ret[w].deleted = <<>>)

W_C7 ==
    \E w \in Workers :
        /\ SyncOk(w)
        /\ call[w].rerun
        /\ \E r \in secretsTbl :
              r.user_id = call[w].user /\ r.updated_at = call[w].last

\* C8: a secret that does not decrypt is left out of updated; the sync
\* still succeeds and returns the secrets that decrypt and the SyncTime.
C8_DecodeFailureSkipped ==
    [][\A w \in Workers :
        /\ (/\ pc[w] = "idle"
            /\ nops' = nops + 1
            /\ call'[w].kind = "sync"
            /\ ret'[w].err # "failed to get modified secrets") =>
              LET rows == SecretsModifiedAfter(secretsTbl, call'[w].user,
                                               call'[w].last)
                  good == {r \in rows :
                             DecryptSecretData(r.data, call'[w].mp).ok}
              IN  /\ pc'[w] = "synctime"
                  /\ IdsOf(found'[w]) = {r.id : r \in good}
        /\ Responded(w) =>
              /\ ret'[w].status = "ok"
              /\ ret'[w].updated = found[w]
              /\ ret'[w].syncTime = now]_vars

W_C8 ==
    \E w \in Workers :
        /\ SyncOk(w)
        /\ ret[w].updated # <<>>
        /\ \E r \in secretsTbl :
              /\ r.user_id = call[w].user
              /\ r.updated_at > call[w].last
              /\ ~DecryptSecretData(r.data, call[w].mp).ok
              /\ r.id \notin IdsOf(ret[w].updated)

\* C9: no entry for a secret id follows a delete entry for that id.
C9_NothingAfterDelete ==
    \A i, j \in 1..Len(syncOps) :
        (i < j /\ syncOps[i].operation = "delete")
            => syncOps[j].secret_id # syncOps[i].secret_id

\* C10: when two updates of one secret have both completed, the row holds
\* the name, metadata, ciphertext, fingerprint and updated_at of the update
\* whose UPDATE statement was executed last.
C10_LastCommitterWins ==
    \A w, v \in Workers :
        (/\ w # v
         /\ Finished(w, {"update"}) /\ ret[w].status = "ok"
         /\ Finished(v, {"update"}) /\ ret[v].status = "ok"
         /\ call[w].id = call[v].id /\ call[w].user = call[v].user
         /\ lastStmt = w)
            => \E r \in GetSecretByID(secretsTbl, call[w].id, call[w].user) :
                  /\ r.name = secret[w].name
                  /\ r.metadata = secret[w].metadata
                  /\ r.data = secret[w].data
                  /\ r.sync_hash = secret[w].sync_hash
                  /\ r.updated_at = secret[w].updated_at

\* both updates done, different bodies, and the one whose UPDATE ran last
\* wrote its log entry first: the two requests overlapped
W_C10 ==
    \E w, v \in Workers :
        /\ w # v
        /\ Finished(w, {"update"}) /\ ret[w].status = "ok"
        /\ Finished(v, {"update"}) /\ ret[v].status = "ok"
        /\ call[w].id = call[v].id
        /\ lastStmt = w
        /\ secret[w].name # secret[v].name
        /\ secret[w].updated_at < secret[v].updated_at
        /\ \E i \in OwnEntries(w), j \in OwnEntries(v) : i < j

\* C11: a write whose caller cancelled returns an error and leaves neither
\* a store change without its log entry nor a log entry without its store
\* change.
CancelErrors ==
    {"context canceled", "failed to commit transaction: context canceled"}

C11_CancelLeavesNothingPartial ==
    \A w \in Workers :
        (Finished(w, WriteKinds) /\ ret[w].err \in CancelErrors)
            => /\ ret[w].status = "err"
               /\ StoreDone(w) <=> OwnEntries(w) # {}

\* C12: a write that returned an error has no log entry.
C12_ErrorMeansNoEntry ==
    \A w \in Workers :
        (Finished(w, WriteKinds) /\ ret[w].status = "err")
            => OwnEntries(w) = {}

\* C13: the entries GetSyncOperationsAfter returns are strictly ordered by
\* (timestamp, insertion order): entries with the same timestamp come in
\* the order they were inserted.
C13_SinceOrderedByInstantAndInsertion ==
    \A w \in Workers :
        Finished(w, {"since"}) =>
            \A i, j \in 1..Len(operations) :
                i < j =>
                    \/ operations[i].timestamp < operations[j].timestamp
                    \/ /\ operations[i].timestamp = operations[j].timestamp
                       /\ operations[i].id < operations[j].id

\* the timestamps of the user's entries
InstantsOf(userID) ==
    {syncOps[i].timestamp :
        i \in {k \in 1..Len(syncOps) : syncOps[k].user_id = userID}}

\* C15: GetSyncOperationsAfter(user, t) returns exactly the user's entries
\* with timestamp > t, each once; with t the timestamp of the user's most
\* recent entry it returns nothing.
C15_SinceIsStrict ==
    \A w \in Workers :
        Finished(w, {"since"}) =>
            /\ Range(operations) =
                  {e \in Range(syncOps) :
                      e.user_id = call[w].user /\ e.timestamp > call[w].last}
            /\ \A i, j \in 1..Len(operations) :
                  i # j => operations[i] # operations[j]
            /\ (/\ call[w].last \in InstantsOf(call[w].user)
                /\ \A t \in InstantsOf(call[w].user) : t <= call[w].last)
                  => operations = <<>>

W_C15 ==
    \E w \in Workers :
        /\ Finished(w, {"since"})
        /\ call[w].last \in InstantsOf(call[w].user)
        /\ \A t \in InstantsOf(call[w].user) : t <= call[w].last
        /\ \E e \in Range(syncOps) :
              e.user_id # call[w].user /\ e.timestamp > call[w].last
        /\ operations = <<>>

\* C14: when a delete entry and a create or update entry of one secret
\* carry the same timestamp, the sync that sees them puts the secret id in
\* deleted and does not return the secret in updated.
C14_DeleteWinsTie ==
    \A w \in Workers :
        SyncOk(w) =>
            \A i, j \in 1..Len(Window(w)) :
                (/\ Window(w)[i].operation = "delete"
                 /\ Window(w)[j].operation \in {"create", "update"}
                 /\ Window(w)[i].secret_id = Window(w)[j].secret_id
                 /\ Window(w)[i].timestamp = Window(w)[j].timestamp)
                    => /\ Window(w)[i].secret_id \in Range(ret[w].deleted)
                       /\ Window(w)[i].secret_id \notin IdsOf(ret[w].updated)

\* worker w finishes a get, update or delete in this step, by its read of
\* the row or by its store statement
Finishing(w) ==
    /\ pc'[w] = "idle"
    /\ pc[w] = "store" \/ (pc[w] = "idle" /\ nops' = nops + 1)
    /\ call'[w].kind \in {"get", "update", "delete"}

\* C16: a get, update or delete of a secret the user does not own fails as
\* not found, with the answer given for a secret that does not exist, and
\* changes nothing in the store.
C16_OtherOwnerIsNotFound ==
    [][\A w \in Workers :
        (/\ Finishing(w)
         /\ \A r \in secretsTbl :
               r.id = call'[w].id => r.user_id # call'[w].user)
            => /\ ret'[w].status = "err"
               /\ ret'[w].code = 404
               /\ ret'[w].error = "Resource not found"
               /\ secretsTbl' = secretsTbl
               /\ syncOps' = syncOps]_vars

\* the three kinds of request have been aimed at the other user's secret
\* and at a secret that was deleted
W_C16 ==
    \E w \in Workers :
        /\ Finished(w, {"get", "update", "delete"})
        /\ call[w].id = OtherSecret.id
        /\ ret[w].code = 404
        /\ OtherSecret \in secretsTbl
        /\ Secret0 \notin secretsTbl

\* C17: the UPDATE of an update request leaves id, user_id, type and
\* created_at of the secret as they were, and leaves every other row alone.
C17_UpdateFrame ==
    [][\A w \in Workers :
        (pc[w] = "store" /\ call[w].kind = "update" /\ pc'[w] = "logins")
            => /\ Cardinality(secretsTbl') = Cardinality(secretsTbl)
               /\ \A r \in secretsTbl :
                     IF r.id = call[w].id
                     THEN \E r2 \in secretsTbl' :
                            /\ r2.id = r.id
                            /\ r2.user_id = r.user_id
                            /\ r2.type = r.type
                            /\ r2.created_at = r.created_at
                     ELSE r \in secretsTbl']_vars

\* an update whose body has another type and name than the secret, made
\* after the clock has advanced, has been stored
W_C17 ==
    \E w \in Workers :
        /\ Finished(w, {"update"}) /\ ret[w].status = "ok"
        /\ \E r \in secretsTbl :
              /\ r.id = call[w].id
              /\ r.name = "b" /\ r.type = "text"
              /\ r.created_at < r.updated_at

\* C18: the sync_hash of every stored secret is the SHA-256 fingerprint of
\* its stored ciphertext.
C18_FingerprintOfCiphertext ==
    \A r \in secretsTbl : r.sync_hash = <<"sha256", r.data>>

\* two updates of one secret with different ciphertexts have both been
\* stored while the other was in flight, next to a row never updated
W_C18 ==
    \E w, v \in Workers :
        /\ w # v
        /\ Finished(w, {"update"}) /\ ret[w].status = "ok"
        /\ Finished(v, {"update"}) /\ ret[v].status = "ok"
        /\ call[w].id = call[v].id
        /\ secret[w].data # secret[v].data
        /\ lastStmt = w
        /\ \E i \in OwnEntries(w), j \in OwnEntries(v) : i < j
        /\ \E r \in secretsTbl : r.id = call[w].id /\ r.data = secret[w].data

\* C19: after a sync that succeeded the client's file holds the SyncTime of
\* the response, and the next sync request carries exactly that value as
\* last_sync_time.
C19_ClientQuotesSyncTime ==
    client.synced =>
        /\ clientFile.exists
        /\ clientFile.last_sync = MarshalTime(client.got)
        /\ client.pc = "waiting" =>
              /\ client.syncReq.last_sync_time = MarshalTime(client.got)
              /\ \A w \in Workers :
                    call[w].op = client.op => call[w].last = client.got

\* the second run has sent its request, after a first sync answered at a
\* later instant than the server's start
W_C19 ==
    /\ client.synced
    /\ client.runs = 2
    /\ client.pc = "waiting"
    /\ client.got = 2
    /\ client.secrets # {}

\* the password the row u was registered with is p
RegisteredWith(u, p) ==
    \E salt \in 1..cfg.ops : u.password_hash = HashPassword(p, salt)

\* C20: once a user is registered, a login with the same username and
\* password succeeds (unless the store failed), and a login with another
\* password fails and is answered 401 "Invalid credentials".
C20_LoginAfterRegister ==
    \A w \in Workers :
        Finished(w, {"login"}) /\ ret[w].err # "failed to get user" =>
            \A u \in GetUserByUsername(usersTbl, call[w].username) :
                IF RegisteredWith(u, call[w].password)
                THEN ret[w].status = "ok" /\ ret[w].code = 200
                ELSE /\ ret[w].status = "err"
                     /\ ret[w].code = 401
                     /\ ret[w].error = "Invalid credentials"

\* C21: no two users share a username, and a registration that ends while
\* another user holds its username has failed with the already-exists
\* answer (409), also when the two registrations ran in parallel.
C21_UsernamesUnique ==
    /\ \A u, v \in usersTbl : u.username = v.username => u = v
    /\ \A w \in Workers :
          /\ Finished(w, {"register"})
          /\ \E u \in usersTbl :
                u.username = call[w].username /\ u.id # call[w].op
          => ret[w].status = "err" /\ ret[w].code = 409

\* C22: decoding what was encoded, under the same password, returns the
\* payload that was encoded.
C22_RoundTrip ==
    codec.pc = "decoded" /\ codec.with = codec.password =>
        /\ codec.out.ok
        /\ codec.out.data = codec.payload

\* an object with a nested object and an escaped character went through
W_C22 ==
    /\ codec.pc = "decoded"
    /\ codec.with = codec.password
    /\ codec.payload = D4
    /\ codec.out.data = D4

\* C23: decoding under a password other than the one the payload was
\* encoded under fails with "decryption failed" and returns no payload.
C23_WrongPasswordFails ==
    codec.pc = "decoded" /\ codec.with # codec.password =>
        /\ ~codec.out.ok
        /\ codec.out.err = ErrDecryptionFailed
        /\ codec.out.data = NoPayload

W_C23 ==
    /\ codec.pc = "decoded"
    /\ codec.with = "mp2"
    /\ codec.password = "mp1"
    /\ codec.payload = D3
    /\ ~codec.out.ok

\* goroutines inside a mutating method, inside a reading method
Writers == {t \in Threads : thr[t].op \in WriteOps
                              /\ thr[t].pc \in {"mutate", "save", "unlock"}}
Readers == {t \in Threads : thr[t].pc \in {"read", "unlock"}
                              /\ thr[t].op \in ReadOps}

\* C24: at most one mutating method of the LocalStorage (its file rewrite
\* included) runs at a time, and no reading method runs while one does.
C24_SingleWriter ==
    /\ Cardinality(Writers) <= 1
    /\ Writers # {} => Readers = {}

\* one goroutine rewrites the file while a reader waits for the lock
W_C24 ==
    /\ thr["t1"].pc = "save"
    /\ thr["t2"].pc = "lock"
    /\ thr["t2"].op \in ReadOps
    /\ client.secrets # {}

\* C28: when the file rewrite of a mutating method fails, the method
\* returns an error and the map and the last-sync instant are what they
\* were before the call.
C28_FailedSaveLeavesMemory ==
    \A t \in Threads :
        thr[t].pc = "unlock" /\ thr[t].op \in WriteOps /\ thr[t].err =>
            <<client.secrets, client.lastSync>> = thr[t].before

\* the writes of SaveSecret and DeleteSecrets in the run that just ended
ApplyWrites ==
    {i \in 1..Len(client.resp.updated) : TRUE}
        \cup (IF client.resp.deleted = <<>> THEN {}
              ELSE {Len(client.resp.updated) + 1})

\* C26: after the client applied a sync response with several updated
\* secrets, all writes succeeding, the cache holds under every returned id
\* an entry that is that returned secret.
C26_EachSecretUnderItsId ==
    /\ client.applied
    /\ \A i \in DOMAIN client.oks : client.oks[i]
    /\ Len(client.resp.updated) >= 2
    => \A i \in 1..Len(client.resp.updated) :
          client.resp.updated[i].id \notin Range(client.resp.deleted) =>
              \E e \in client.secrets :
                  /\ e.key = client.resp.updated[i].id
                  /\ e.val = client.resp.updated[i]

\* C27: when a SaveSecret or the DeleteSecrets of a run failed, the
\* last-sync instant, in memory and in secrets.json, is the one the run
\* started with.
C27_SyncTimeOnlyAfterApply ==
    client.applied /\ (\E i \in ApplyWrites : ~client.oks[i]) =>
        /\ client.lastSync = client.prevSync
        /\ clientFile.last_sync = MarshalTime(client.prevSync)

\* the instant the client's next sync will ask from
StoredLastSync == LoadLastSync(clientFile)

\* C25: a stored secret of the client's user, readable under its master
\* password and modified before the instant the next sync will ask from,
\* has been returned to the client by a sync: otherwise no later sync
\* returns it, its updated_at not being after that instant.
C25_NoWriteMissed ==
    \A r \in secretsTbl :
        /\ r.user_id = "u1"
        /\ DecryptSecretData(r.data, "mp1").ok
        /\ r.updated_at < StoredLastSync
        => \E x \in client.seen : x.id = r.id /\ x.sync_hash = r.sync_hash

\* C29: a request made after any SetToken and SetMasterPassword calls
\* carries the token and the master password set last, and no
\* Authorization or X-Master-Password header when that value is empty.
C29_LatestCredentialsSent ==
    httpc.requested =>
        /\ IF httpc.token = ""
           THEN "Authorization" \notin DOMAIN httpc.sent
           ELSE /\ "Authorization" \in DOMAIN httpc.sent
                /\ httpc.sent["Authorization"] = Bearer(httpc.token)
        /\ IF httpc.masterPassword = ""
           THEN "X-Master-Password" \notin DOMAIN httpc.sent
           ELSE /\ "X-Master-Password" \in DOMAIN httpc.sent
                /\ httpc.sent["X-Master-Password"] = httpc.masterPassword

\* C30: RetryMiddleware(n) calls the handler between once and n + 1
\* times, stops at the first call that returns nil and returns nil then,
\* and returns the error of the last call when all n + 1 calls fail.
C30_RetryBounds ==
    retry.pc = "done" =>
        LET n == retry.maxRetries
            good == {k \in 1..n + 1 : retry.outcomes[k] = Nil}
        IN  /\ retry.calls >= 1
            /\ retry.calls <= n + 1
            /\ IF good = {}
               THEN retry.calls = n + 1 /\ retry.err = retry.outcomes[n + 1]
               ELSE /\ retry.err = Nil
                    /\ retry.calls \in good
                    /\ \A k \in good : retry.calls <= k

\* with maxRetries 2 all three calls fail, the last with another error
\* than the one before it, and the error of the last call is returned
W_C30 ==
    /\ retry.pc = "done"
    /\ retry.maxRetries = 2
    /\ retry.calls = 3
    /\ retry.outcomes[1] = "e1"
    /\ retry.outcomes[2] = "e2"
    /\ retry.outcomes[3] = "e1"
    /\ retry.err = "e1"

====
